---- MODULE Spec2Model ----
(***************************************************************************)
(* A model of AzureBlobGetter (get_azure_blob.go): parseUrl, ClientMode,   *)
(* Get, GetFile, getObject and getBobClient, together with the parts of    *)
(* the blob store and of the local filesystem those operations act on.     *)
(*                                                                         *)
(* Strings are sequences of one-character strings, so that prefixes,       *)
(* splitting and path cleaning are computed character by character.        *)
(***************************************************************************)
EXTENDS Integers, Sequences, FiniteSets, TLC

VARIABLES
    store,       \* remote container contents: the set of blob names
    files,       \* local filesystem: the set of regular files (cleaned paths)
    dirs,        \* local filesystem: the set of directories (cleaned paths)
    pc,          \* position of the calling program
    op,          \* the operation in progress or just returned
    u,           \* the *url.URL argument of the operation
    dst,         \* the dst argument of Get / GetFile
    ref,         \* what parseUrl returned for u
    marker,      \* the azblob.Marker of the pagination loop
    items,       \* items of the current listing page still to be processed
    mode,        \* ClientMode's first return value
    err,         \* the operation's error return value
    reqs,        \* history: markers sent with the list requests of this call
    resps,       \* history: NextMarkers returned by the store in this call
    listed,      \* history: item names returned by the store in this call
    downloaded,  \* history: getObject invocations of this call (name, dst)
    written,     \* history: files created by this call
    before,      \* history: the files that existed when this call began
    calls        \* number of operations started so far

vars == <<store, files, dirs, pc, op, u, dst, ref, marker, items, mode, err,
          reqs, resps, listed, downloaded, written, before, calls>>

----------------------------------------------------------------------------
(* Bounds of the model.                                                    *)

MaxBlobs == 2       \* most blobs in the container
MaxPages == 2       \* most listing pages the store splits one listing into
MaxCalls == 2       \* most operations in one behaviour
MaxHostLen == 4     \* longest URL host tried against parseUrl
MaxPathLen == 4     \* longest URL path tried against parseUrl

----------------------------------------------------------------------------
(* Strings.                                                                *)

Sep == "/"
Dot == <<".">>
DotDot == <<".", ".">>
Root == <<"/">>

\* The characters of blob names and paths, in byte order
\* ('.' 0x2E < '/' 0x2F < letters).
ByteOrder == <<".", "/", "a", "c", "d", "m", "s">>
Ord(c) == CHOOSE i \in 1..Len(ByteOrder) : ByteOrder[i] = c

RECURSIVE StrLess(_, _)
StrLess(s, t) ==
    IF s = <<>> THEN t # <<>>
    ELSE IF t = <<>> THEN FALSE
    ELSE IF Head(s) = Head(t) THEN StrLess(Tail(s), Tail(t))
    ELSE Ord(Head(s)) < Ord(Head(t))

\* strings.HasPrefix
HasPrefix(s, p) == Len(p) <= Len(s) /\ SubSeq(s, 1, Len(p)) = p

\* strings.HasSuffix
HasSuffix(s, p) == Len(p) <= Len(s) /\ SubSeq(s, Len(s) - Len(p) + 1, Len(s)) = p

\* strings.TrimPrefix
TrimPrefix(s, p) == IF HasPrefix(s, p) THEN SubSeq(s, Len(p) + 1, Len(s)) ELSE s

\* strings.IndexByte, 1-based, 0 when absent
Index(s, c) ==
    IF \E i \in 1..Len(s) : s[i] = c
    THEN CHOOSE i \in 1..Len(s) : s[i] = c /\ \A j \in 1..(i - 1) : s[j] # c
    ELSE 0

\* strings.SplitN(s, c, n) for n > 0: at most n substrings, the last one the
\* unsplit remainder.
RECURSIVE SplitN(_, _, _)
SplitN(s, c, n) ==
    IF n <= 1 \/ Index(s, c) = 0 THEN <<s>>
    ELSE <<SubSeq(s, 1, Index(s, c) - 1)>>
         \o SplitN(SubSeq(s, Index(s, c) + 1, Len(s)), c, n - 1)

\* strings.Split(s, c)
Split(s, c) == SplitN(s, c, Len(s) + 1)

\* strings.Join(cs, "/")
RECURSIVE JoinComps(_)
JoinComps(cs) ==
    IF cs = <<>> THEN <<>>
    ELSE IF Len(cs) = 1 THEN cs[1]
    ELSE cs[1] \o <<Sep>> \o JoinComps(Tail(cs))

\* All strings over alphabet A of length lo..hi.
StringsOver(A, lo, hi) == UNION {[1..n -> A] : n \in lo..hi}

----------------------------------------------------------------------------
(* parseUrl.                                                               *)

NoErr == "nil"
ErrInvalidURL == "URL is not a valid Azure Blob URL"

NoRef == [accountName |-> <<>>, baseURL |-> <<>>, container |-> <<>>,
          blobPath |-> <<>>, accessKey |-> <<>>, err |-> NoErr]

parseUrl(url) ==
    LET hostParts == SplitN(url.Host, ".", 3)
        pathParts == SplitN(TrimPrefix(url.Path, <<Sep>>), Sep, 2)
    IN  IF Len(hostParts) # 3
        THEN [NoRef EXCEPT !.err = ErrInvalidURL]
        ELSE IF Len(pathParts) # 2
        THEN [NoRef EXCEPT !.accountName = hostParts[1],
                           !.baseURL = hostParts[3],
                           !.err = ErrInvalidURL]
        ELSE [accountName |-> hostParts[1], baseURL |-> hostParts[3],
              container |-> pathParts[1], blobPath |-> pathParts[2],
              accessKey |-> url.Key, err |-> NoErr]

----------------------------------------------------------------------------
(* path/filepath on a Unix build: Clean, Dir, Join, Rel.                   *)

Last(s) == s[Len(s)]
Front(s) == SubSeq(s, 1, Len(s) - 1)

\* The element loop of filepath.Clean: empty and "." elements are dropped,
\* ".." removes the element before it when there is one to remove, is dropped
\* at the root and is kept at the start of a relative path.
RECURSIVE CleanComps(_, _, _)
CleanComps(cs, out, rooted) ==
    IF cs = <<>> THEN out
    ELSE LET c == Head(cs)
             next == IF c = <<>> \/ c = Dot THEN out
                     ELSE IF c = DotDot
                     THEN IF out # <<>> /\ Last(out) # DotDot THEN Front(out)
                          ELSE IF rooted THEN out
                          ELSE Append(out, DotDot)
                     ELSE Append(out, c)
         IN  CleanComps(Tail(cs), next, rooted)

\* filepath.Clean
Clean(p) ==
    IF p = <<>> THEN Dot
    ELSE LET rooted == p[1] = Sep
             out == CleanComps(Split(p, Sep), <<>>, rooted)
         IN  IF rooted THEN Root \o JoinComps(out)
             ELSE IF out = <<>> THEN Dot
             ELSE JoinComps(out)

\* Index of the last separator of p, 0 when there is none.
LastSep(p) ==
    IF \E i \in 1..Len(p) : p[i] = Sep
    THEN CHOOSE i \in 1..Len(p) : p[i] = Sep /\ \A j \in (i + 1)..Len(p) : p[j] # Sep
    ELSE 0

\* filepath.Dir
Dir(p) == Clean(SubSeq(p, 1, LastSep(p)))

\* filepath.Join of two elements
Join(a, b) ==
    IF a # <<>> THEN Clean(a \o <<Sep>> \o b)
    ELSE IF b # <<>> THEN Clean(b)
    ELSE <<>>

\* The elements Rel's scanning loop sees in a cleaned path.
RelComps(p) ==
    IF p = <<>> THEN <<>>
    ELSE IF p = Root THEN << <<>> >>
    ELSE Split(p, Sep)

\* Number of leading elements two element lists share.
CommonLen(B, T) ==
    LET m == IF Len(B) < Len(T) THEN Len(B) ELSE Len(T)
    IN  CHOOSE k \in 0..m :
            /\ \A i \in 1..k : B[i] = T[i]
            /\ (k < m => B[k + 1] # T[k + 1])

RECURSIVE Ups(_)
Ups(n) == IF n = 0 THEN <<>> ELSE <<DotDot>> \o Ups(n - 1)

\* filepath.Rel(basepath, targpath): [ok, path].
Rel(basepath, targpath) ==
    LET base0 == Clean(basepath)
        targ == Clean(targpath)
        base == IF base0 = Dot THEN <<>> ELSE base0
        baseSlashed == Len(base) > 0 /\ base[1] = Sep
        targSlashed == Len(targ) > 0 /\ targ[1] = Sep
        B == RelComps(base)
        T == RelComps(targ)
        k == CommonLen(B, T)
        Bp == SubSeq(B, k + 1, Len(B))
        Tp == SubSeq(T, k + 1, Len(T))
    IN  IF targ = base0 THEN [ok |-> TRUE, path |-> Dot]
        ELSE IF baseSlashed # targSlashed THEN [ok |-> FALSE, path |-> <<>>]
        ELSE IF Bp # <<>> /\ Tp # <<>> /\ Bp[1] = DotDot
        THEN [ok |-> FALSE, path |-> <<>>]
        ELSE IF Bp # <<>> THEN [ok |-> TRUE, path |-> JoinComps(Ups(Len(Bp)) \o Tp)]
        ELSE [ok |-> TRUE, path |-> JoinComps(Tp)]

----------------------------------------------------------------------------
(* The local filesystem: os.Stat, os.RemoveAll, os.MkdirAll, os.Create on  *)
(* a state [files, dirs] of cleaned paths relative to the working          *)
(* directory.                                                              *)

\* p is root itself or lies below it.
Under(p, root) ==
    \/ p = root
    \/ root = Dot /\ ~HasPrefix(p, DotDot) /\ ~HasPrefix(p, Root)
    \/ root = Root /\ HasPrefix(p, Root)
    \/ HasPrefix(p, root \o <<Sep>>)

\* The working directory, the root and the directories above the working
\* directory always exist.
Ambient(p) == p = Dot \/ p = Root \/ \A i \in 1..Len(Split(p, Sep)) : Split(p, Sep)[i] = DotDot

\* The proper ancestors of p.
RECURSIVE Ancestors(_)
Ancestors(p) == IF Dir(p) = p THEN {} ELSE {Dir(p)} \cup Ancestors(Dir(p))

IsFile(fs, p) == p \in fs.files
IsDir(fs, p) == p \in fs.dirs \/ Ambient(p)

\* os.Stat: "ok", "ENOENT" (os.IsNotExist) or "ENOTDIR" (a file on the way).
Stat(fs, p) ==
    IF \E a \in Ancestors(p) : IsFile(fs, a) THEN "ENOTDIR"
    ELSE IF IsFile(fs, p) \/ IsDir(fs, p) THEN "ok"
    ELSE "ENOENT"

\* A RemoveAll that removes nothing.
RemoveAllNothing(fs, p) == fs

\* os.RemoveAll: p and everything below it is gone.
RemoveAll(fs, p) ==
    [files |-> {f \in fs.files : ~Under(f, p)},
     dirs |-> {d \in fs.dirs : ~Under(d, p)}]

\* os.MkdirAll: [ok, fs]; fails when p or one of its ancestors is a file.
MkdirAll(fs, p) ==
    IF IsFile(fs, p) \/ \E a \in Ancestors(p) : IsFile(fs, a)
    THEN [ok |-> FALSE, fs |-> fs]
    ELSE [ok |-> TRUE,
          fs |-> [fs EXCEPT !.dirs = @ \cup {d \in ({p} \cup Ancestors(p)) : ~Ambient(d)}]]

\* os.Create: [ok, fs]; fails when p is a directory or its parent is none.
Create(fs, p) ==
    IF IsDir(fs, p) \/ ~IsDir(fs, Dir(p))
    THEN [ok |-> FALSE, fs |-> fs]
    ELSE [ok |-> TRUE, fs |-> [fs EXCEPT !.files = @ \cup {p}]]

----------------------------------------------------------------------------
(* The blob store: names, listing by prefix in name order, pages.          *)

\* Blob names the container may hold: an object, a directory marker,
\* objects below it, and an object that shares only a lexical prefix with "a".
Names == {<<"a">>,
          <<"a", "/">>,
          <<"a", "/", "m">>,
          <<"a", "/", "s", "/", "m">>,
          <<"a", "/", "m", "/", "s">>,
          <<"a", "s">>}
Stores == {S \in SUBSET Names : Cardinality(S) <= MaxBlobs}

RECURSIVE SortedSeq(_)
SortedSeq(S) ==
    IF S = {} THEN <<>>
    ELSE LET m == CHOOSE x \in S : \A y \in S \ {x} : StrLess(x, y)
         IN  <<m>> \o SortedSeq(S \ {m})

\* The flat listing of the container under a prefix, in name order.
Listing(S, prefix) == SortedSeq({n \in S : HasPrefix(n, prefix)})

\* azblob.Marker: Val is a *string; nil before the first request, "" when the
\* listing is complete, otherwise an opaque token (here: items already
\* returned, pages already returned).
NilMarker == [IsNil |-> TRUE, Val |-> <<>>]
DoneMarker == [IsNil |-> FALSE, Val |-> <<>>]
Token(pos, page) == [IsNil |-> FALSE, Val |-> <<pos, page>>]

\* azblob.Marker.NotDone
NotDone(m) == m.IsNil \/ m.Val # <<>>

MarkerPos(m) == IF m.Val = <<>> THEN 0 ELSE m.Val[1]
MarkerPage(m) == IF m.Val = <<>> THEN 0 ELSE m.Val[2]

\* The pages the store may answer a list request with: the next k items of
\* the listing and the marker to continue from. The last page the store is
\* willing to produce carries everything that is left.
Pages(S, prefix, m) ==
    LET all == Listing(S, prefix)
        pos == MarkerPos(m)
        page == MarkerPage(m) + 1
        left == Len(all) - pos
    IN  {[items |-> SubSeq(all, pos + 1, pos + k),
          next |-> IF more THEN Token(pos + k, page) ELSE DoneMarker] :
            <<k, more>> \in {km \in (0..left) \X BOOLEAN :
                               /\ (km[1] < left => km[2])
                               /\ (page >= MaxPages => ~km[2])}}

----------------------------------------------------------------------------
(* ClientMode values, credentials, and the per-item decisions.             *)

ClientModeInvalid == 0
ClientModeFile == 2
ClientModeDir == 3

B64Chars == {"Z", "m", "9", "v", "f", "o", "A"}

\* base64.StdEncoding.DecodeString succeeds: whole quanta of four characters,
\* padding only as the last one or two characters.
Base64OK(k) ==
    /\ Len(k) % 4 = 0
    /\ \A i \in 1..Len(k) :
          \/ k[i] \in B64Chars
          \/ /\ k[i] = "="
             /\ i > Len(k) - 2
             /\ \A j \in i..Len(k) : k[j] = "="

\* getBobClient: "ok", or "fatal" when azblob.NewSharedKeyCredential rejects
\* the key and log.Fatal ends the process.
getBobClient(accountName, baseURL, accountKey) ==
    IF Base64OK(accountKey) THEN "ok" ELSE "fatal"

\* The decision with the prefix test first and without the separator.
ClassifyItemPrefixFirst(name, blobPath) ==
    IF HasPrefix(name, blobPath) /\ name # blobPath THEN ClientModeDir
    ELSE IF name = blobPath THEN ClientModeDir
    ELSE ClientModeInvalid

\* ClientMode's decision on a listed item (the body of the range loop).
ClassifyItem(name, blobPath) ==
    IF name = blobPath THEN ClientModeFile
    ELSE IF HasPrefix(name, blobPath \o <<Sep>>) THEN ClientModeDir
    ELSE ClientModeInvalid

\* An empty listing classified as the zero mode.
EmptyListingModeInvalid == ClientModeInvalid

\* ClientMode's result when the loop ends without having seen an item.
EmptyListingMode == ClientModeFile

\* No item is taken for a directory marker.
IsDirMarkerNever(objPath) == FALSE

\* Get: "If the key ends with a backslash assume it is a directory and ignore".
IsDirMarker(objPath) == HasSuffix(objPath, <<Sep>>)

\* The destination taken from the full object name.
ObjDstFullName(d, blobPath, objPath) == [ok |-> TRUE, path |-> Join(d, objPath)]

\* Get: the object destination path, [ok, path].
ObjDst(d, blobPath, objPath) ==
    LET rel == Rel(blobPath, objPath)
    IN  IF rel.ok THEN [ok |-> TRUE, path |-> Join(d, rel.path)]
        ELSE [ok |-> FALSE, path |-> <<>>]

\* Get: "Remove destination if it already exists" and "Create all the parent
\* directories": [err, fs].
PrepareDst(fs, d) ==
    LET st == Stat(fs, d)
        fs1 == IF st = "ok" THEN RemoveAll(fs, d) ELSE fs
        mk == MkdirAll(fs1, Dir(d))
    IN  IF st = "ENOTDIR" THEN [err |-> "stat", fs |-> fs]
        ELSE IF ~mk.ok THEN [err |-> "mkdir", fs |-> fs1]
        ELSE [err |-> NoErr, fs |-> mk.fs]

\* getObject: downloadOK tells whether blobURL.Download succeeded.
\* [status, err, fs, wrote] with status "fatal" (log.Fatal) or "return".
getObject(fs, d, downloadOK) ==
    LET mk == MkdirAll(fs, Dir(d))
        cr == Create(mk.fs, d)
    IN  IF ~downloadOK THEN [status |-> "fatal", err |-> NoErr, fs |-> fs, wrote |-> {}]
        ELSE IF ~mk.ok THEN [status |-> "return", err |-> "mkdir", fs |-> fs, wrote |-> {}]
        ELSE IF ~cr.ok THEN [status |-> "return", err |-> "create", fs |-> mk.fs, wrote |-> {}]
        ELSE [status |-> "return", err |-> NoErr, fs |-> cr.fs, wrote |-> {d}]

----------------------------------------------------------------------------
(* Inputs.                                                                 *)

ValidHost == <<"h", ".", "b", ".", "c">>
Keys == {<<>>, <<"f", "o", "o">>}
Paths == {<<"/", "c", "/", "a">>, <<"/", "c", "/", "a", "/", "s">>, <<"/", "c">>}
URLs == {[Host |-> ValidHost, Path |-> p, Key |-> k] : p \in Paths, k \in Keys}
Dsts == {<<"d">>}
FileDsts == {<<"d">>, <<"d", "/", "m">>}

HostChars == {"h", "."}
PathChars == {"c", "/"}
ParseURLs == {[Host |-> h, Path |-> p, Key |-> <<>>] :
                h \in StringsOver(HostChars, 0, MaxHostLen),
                p \in StringsOver(PathChars, 0, MaxPathLen)}

NoURL == [Host |-> <<>>, Path |-> <<>>, Key |-> <<>>]

----------------------------------------------------------------------------
(* The state machine.                                                      *)

FS == [files |-> files, dirs |-> dirs]

Init ==
    /\ store \in Stores
    /\ files = {}
    /\ dirs = {}
    /\ pc = "idle"
    /\ op = "none"
    /\ u = NoURL
    /\ dst = <<>>
    /\ ref = NoRef
    /\ marker = NilMarker
    /\ items = <<>>
    /\ mode = ClientModeInvalid
    /\ err = NoErr
    /\ reqs = <<>>
    /\ resps = <<>>
    /\ listed = <<>>
    /\ downloaded = <<>>
    /\ written = {}
    /\ before = {}
    /\ calls = 0

\* The blob store's contents change between operations.
PutBlob ==
    /\ pc = "idle"
    /\ \E n \in Names \ store :
          /\ Cardinality(store) < MaxBlobs
          /\ store' = store \cup {n}
    /\ UNCHANGED <<files, dirs, pc, op, u, dst, ref, marker, items, mode, err,
                   reqs, resps, listed, downloaded, written, before, calls>>

DeleteBlob ==
    /\ pc = "idle"
    /\ \E n \in store : store' = store \ {n}
    /\ UNCHANGED <<files, dirs, pc, op, u, dst, ref, marker, items, mode, err,
                   reqs, resps, listed, downloaded, written, before, calls>>

\* Entry of an operation: the arguments are bound and the histories start.
Enter(o, d, url) ==
    /\ pc = "idle"
    /\ calls < MaxCalls
    /\ calls' = calls + 1
    /\ op' = o
    /\ u' = url
    /\ dst' = d
    /\ ref' = parseUrl(url)
    /\ reqs' = <<>>
    /\ resps' = <<>>
    /\ listed' = <<>>
    /\ items' = <<>>
    /\ marker' = NilMarker
    /\ before' = files

\* ClientMode up to the pagination loop.
ClientModeCall ==
    \E url \in URLs :
        /\ Enter("ClientMode", <<>>, url)
        /\ LET r == parseUrl(url)
           IN  /\ pc' = IF r.err # NoErr THEN "done"
                        ELSE IF getBobClient(r.accountName, r.baseURL, r.accessKey) = "fatal"
                        THEN "fatal"
                        ELSE "cm_list"
               /\ err' = r.err
               /\ mode' = ClientModeInvalid
        /\ UNCHANGED <<store, files, dirs, downloaded, written>>

\* One turn of ClientMode's pagination loop. The error of
\* ListBlobsFlatSegment is discarded; on a failed request the response
\* pointer is nil and reading listBlob.NextMarker panics.
ClientModeList ==
    /\ pc = "cm_list"
    /\ reqs' = Append(reqs, marker)
    /\ \/ /\ pc' = "panic"
          /\ UNCHANGED <<marker, resps, listed, mode, err>>
       \/ \E pg \in Pages(store, ref.blobPath, marker) :
             /\ marker' = pg.next
             /\ resps' = Append(resps, pg.next)
             /\ listed' = listed \o pg.items
             /\ err' = NoErr
             /\ IF pg.items # <<>>
                THEN /\ mode' = ClassifyItem(pg.items[1], ref.blobPath)
                     /\ pc' = "done"
                ELSE IF NotDone(pg.next)
                THEN /\ mode' = mode
                     /\ pc' = "cm_list"
                ELSE /\ mode' = EmptyListingMode
                     /\ pc' = "done"
    /\ UNCHANGED <<store, files, dirs, op, u, dst, ref, items, downloaded, written,
                   before, calls>>

\* Get up to the pagination loop.
GetCall ==
    \E url \in URLs, d \in Dsts :
        /\ Enter("Get", d, url)
        /\ LET r == parseUrl(url)
               prep == PrepareDst(FS, d)
           IN  IF r.err # NoErr
               THEN /\ pc' = "done"
                    /\ err' = r.err
                    /\ UNCHANGED <<files, dirs>>
               ELSE /\ files' = prep.fs.files
                    /\ dirs' = prep.fs.dirs
                    /\ err' = prep.err
                    /\ pc' = IF prep.err # NoErr THEN "done"
                             ELSE IF getBobClient(r.accountName, r.baseURL, r.accessKey) = "fatal"
                             THEN "fatal"
                             ELSE "get_list"
        /\ downloaded' = <<>>
        /\ written' = {}
        /\ UNCHANGED <<store, mode>>

\* Where Get's loops go once the current page has no item left.
AfterPage(m) == IF NotDone(m) THEN "get_list" ELSE "done"

\* One list request of Get's pagination loop (error discarded as in
\* ClientMode).
GetList ==
    /\ pc = "get_list"
    /\ reqs' = Append(reqs, marker)
    /\ \/ /\ pc' = "panic"
          /\ UNCHANGED <<marker, resps, listed, items>>
       \/ \E pg \in Pages(store, ref.blobPath, marker) :
             /\ marker' = pg.next
             /\ resps' = Append(resps, pg.next)
             /\ listed' = listed \o pg.items
             /\ items' = pg.items
             /\ pc' = IF pg.items # <<>> THEN "get_items" ELSE AfterPage(pg.next)
    /\ UNCHANGED <<store, files, dirs, op, u, dst, ref, mode, err, downloaded, written,
                   before, calls>>

\* One turn of Get's loop over the items of a page.
GetItem ==
    /\ pc = "get_items"
    /\ LET objPath == Head(items)
           od == ObjDst(dst, ref.blobPath, objPath)
       IN  IF IsDirMarker(objPath)
           THEN /\ pc' = IF Tail(items) # <<>> THEN "get_items" ELSE AfterPage(marker)
                /\ UNCHANGED <<files, dirs, err, downloaded, written>>
           ELSE IF ~od.ok
           THEN /\ pc' = "done"
                /\ err' = "rel"
                /\ UNCHANGED <<files, dirs, downloaded, written>>
           ELSE \E downloadOK \in BOOLEAN :
                   LET g == getObject(FS, od.path, downloadOK)
                   IN  /\ downloaded' = Append(downloaded, [name |-> objPath, dst |-> od.path])
                       /\ files' = g.fs.files
                       /\ dirs' = g.fs.dirs
                       /\ written' = written \cup g.wrote
                       /\ err' = g.err
                       /\ pc' = IF g.status = "fatal" THEN "fatal"
                                ELSE IF g.err # NoErr THEN "done"
                                ELSE IF Tail(items) # <<>> THEN "get_items"
                                ELSE AfterPage(marker)
    /\ items' = Tail(items)
    /\ UNCHANGED <<store, op, u, dst, ref, marker, mode, reqs, resps, listed, before, calls>>

\* GetFile.
GetFileCall ==
    \E url \in URLs, d \in FileDsts, downloadOK \in BOOLEAN :
        /\ Enter("GetFile", d, url)
        /\ LET r == parseUrl(url)
               g == getObject(FS, d, downloadOK)
           IN  IF r.err # NoErr
               THEN /\ pc' = "done"
                    /\ err' = r.err
                    /\ downloaded' = <<>>
                    /\ written' = {}
                    /\ UNCHANGED <<files, dirs>>
               ELSE IF getBobClient(r.accountName, r.baseURL, r.accessKey) = "fatal"
               THEN /\ pc' = "fatal"
                    /\ err' = NoErr
                    /\ downloaded' = <<>>
                    /\ written' = {}
                    /\ UNCHANGED <<files, dirs>>
               ELSE /\ downloadOK => r.blobPath \in store
                    /\ downloaded' = <<[name |-> r.blobPath, dst |-> d]>>
                    /\ files' = g.fs.files
                    /\ dirs' = g.fs.dirs
                    /\ written' = g.wrote
                    /\ err' = g.err
                    /\ pc' = IF g.status = "fatal" THEN "fatal" ELSE "done"
        /\ UNCHANGED <<store, mode>>

\* The caller takes the result; the operation's locals are gone.
Return ==
    /\ pc = "done"
    /\ pc' = "idle"
    /\ op' = "none"
    /\ u' = NoURL
    /\ dst' = <<>>
    /\ ref' = NoRef
    /\ marker' = NilMarker
    /\ items' = <<>>
    /\ mode' = ClientModeInvalid
    /\ err' = NoErr
    /\ reqs' = <<>>
    /\ resps' = <<>>
    /\ listed' = <<>>
    /\ downloaded' = <<>>
    /\ written' = {}
    /\ before' = {}
    /\ UNCHANGED <<store, files, dirs, calls>>

Next ==
    \/ PutBlob
    \/ DeleteBlob
    \/ ClientModeCall
    \/ ClientModeList
    \/ GetCall
    \/ GetList
    \/ GetItem
    \/ GetFileCall
    \/ Return

Spec == Init /\ [][Next]_vars

----------------------------------------------------------------------------
(* parseUrl on its own, over every host and path up to the length bounds.  *)

InitParse ==
    /\ store = {}
    /\ files = {}
    /\ dirs = {}
    /\ pc = "idle"
    /\ op = "none"
    /\ u \in ParseURLs
    /\ dst = <<>>
    /\ ref = NoRef
    /\ marker = NilMarker
    /\ items = <<>>
    /\ mode = ClientModeInvalid
    /\ err = NoErr
    /\ reqs = <<>>
    /\ resps = <<>>
    /\ listed = <<>>
    /\ downloaded = <<>>
    /\ written = {}
    /\ before = {}
    /\ calls = 0

ParseCall ==
    /\ pc = "idle"
    /\ op' = "parseUrl"
    /\ ref' = parseUrl(u)
    /\ err' = parseUrl(u).err
    /\ pc' = "done"
    /\ UNCHANGED <<store, files, dirs, u, dst, marker, items, mode, reqs, resps, listed,
                   downloaded, written, before, calls>>

NextParse == ParseCall

SpecParse == InitParse /\ [][NextParse]_vars

----------------------------------------------------------------------------
(* Properties.                                                             *)

Returned(o) == pc = "done" /\ op = o
DownloadedNames == [i \in DOMAIN downloaded |-> downloaded[i].name]
DownloadDsts == {downloaded[i].dst : i \in DOMAIN downloaded}
NotMarkerName(n) == ~HasSuffix(n, <<Sep>>)
IsPrefixOf(s, t) == Len(s) <= Len(t) /\ SubSeq(t, 1, Len(s)) = s

\* C1: a failure reported by the store client is returned to the caller as
\* an error and never ends the process: no operation reaches log.Fatal, and
\* GetFile on an object that is not in the store returns a non-nil error.
C1_StoreFailuresAreReturned ==
    /\ pc # "fatal"
    /\ (Returned("GetFile") /\ ref.err = NoErr /\ ref.blobPath \notin store
          => err # NoErr)

\* C2: ClientMode returns FILE with a nil error when the first listed item
\* neither equals the object path nor starts with object path + "/", and
\* with a nil error it never returns anything but FILE or DIRECTORY.
C2_SiblingIsFile ==
    Returned("ClientMode") /\ err = NoErr =>
        /\ mode \in {ClientModeFile, ClientModeDir}
        /\ ((listed # <<>>
               /\ listed[1] # ref.blobPath
               /\ ~HasPrefix(listed[1], ref.blobPath \o <<Sep>>))
              => mode = ClientModeFile)

\* C3: when the store holds an object named exactly the object path and
\* objects named object path + "/" + ..., ClientMode returns FILE, not
\* DIRECTORY.
C3_ExactMatchWins ==
    (/\ Returned("ClientMode")
     /\ err = NoErr
     /\ ref.blobPath \in store
     /\ \E n \in store : HasPrefix(n, ref.blobPath \o <<Sep>>))
        => mode = ClientModeFile

C3_Witness ==
    /\ Returned("ClientMode")
    /\ err = NoErr
    /\ ref.blobPath \in store
    /\ \E n \in store : HasPrefix(n, ref.blobPath \o <<Sep>>)
    /\ listed[1] = ref.blobPath
    /\ mode = ClientModeFile

\* C4: when every page of the listing under the object path is empty,
\* ClientMode returns FILE with a nil error.
C4_EmptyListingIsFile ==
    (/\ Returned("ClientMode")
     /\ ref.err = NoErr
     /\ Listing(store, ref.blobPath) = <<>>)
        => mode = ClientModeFile /\ err = NoErr

C4_Witness ==
    /\ Returned("ClientMode")
    /\ ref.err = NoErr
    /\ Listing(store, ref.blobPath) = <<>>
    /\ store # {}
    /\ Len(resps) >= 2
    /\ listed = <<>>
    /\ mode = ClientModeFile

\* C5: a failed list request, on the first page or a later one, ends the
\* operation with a non-nil error returned to the caller, for ClientMode
\* and for Get.
C5_ListFailureIsReturned ==
    Len(reqs) > Len(resps) => pc = "done" /\ err # NoErr

\* C6: parseUrl fails unless the host has three dot-separated segments and
\* the path, after one leading "/" is stripped, is a non-empty container,
\* "/", and a non-empty object path; so a parsed reference has a non-empty
\* container and a non-empty object path without a leading separator.
C6_ParsedRefWellFormed ==
    Returned("parseUrl") /\ ref.err = NoErr =>
        /\ Len(SplitN(u.Host, ".", 3)) = 3
        /\ ref.container # <<>>
        /\ ref.blobPath # <<>>
        /\ ref.blobPath[1] # Sep

\* C7: after a successful Get the files at or below the destination root
\* are exactly the ones this call downloaded there; none that an earlier
\* call left survives unless this call wrote it again.
C7_DestinationReplaced ==
    Returned("Get") /\ err = NoErr =>
        /\ \A f \in files : Under(f, dst) => f \in written
        /\ {f \in files : Under(f, dst)} = {p \in DownloadDsts : Under(p, dst)}

C7_Witness ==
    /\ Returned("Get")
    /\ err = NoErr
    /\ calls = 2
    /\ \E f \in before : Under(f, dst) /\ f \notin files
    /\ \E f \in files : Under(f, dst) /\ f \notin before

\* C8: Get downloads an item named object path + "/" + rest to the
\* destination root joined with rest, not to the root joined with the full
\* object name.
C8_ReRooted ==
    op = "Get" =>
        \A i \in DOMAIN downloaded :
            LET name == downloaded[i].name
                rest == SubSeq(name, Len(ref.blobPath) + 2, Len(name))
            IN  HasPrefix(name, ref.blobPath \o <<Sep>>) =>
                    /\ downloaded[i].dst = Join(dst, rest)
                    /\ downloaded[i].dst # Join(dst, name)

C8_Witness ==
    /\ Returned("Get")
    /\ err = NoErr
    /\ ref.blobPath = <<"a">>
    /\ DownloadedNames = << <<"a", "/", "m">>, <<"a", "/", "s", "/", "m">> >>
    /\ files = {<<"d", "/", "m">>, <<"d", "/", "s", "/", "m">>}

\* C9: every file Get writes is the destination root or lies below it.
C9_WritesStayInside ==
    op = "Get" => \A f \in written : Under(f, dst)

\* C10: Get's list requests are sequential: the first carries the empty
\* marker and each later one the marker the previous page returned; the
\* loop runs on exactly while the last page returned a marker; and when Get
\* returns success the downloader has been invoked once, in listing order,
\* for every listed item not ending in "/" and for no item ending in "/".
C10_Pagination ==
    op = "Get" =>
        /\ reqs # <<>> => reqs[1] = NilMarker
        /\ \A i \in 2..Len(reqs) : reqs[i] = resps[i - 1]
        /\ Len(resps) <= Len(reqs) /\ Len(reqs) <= Len(resps) + 1
        /\ \A i \in 1..(Len(resps) - 1) : NotDone(resps[i])
        /\ pc = "get_list" => NotDone(marker)
        /\ \A i \in DOMAIN downloaded : NotMarkerName(downloaded[i].name)
        /\ IsPrefixOf(DownloadedNames, SelectSeq(listed, NotMarkerName))
        /\ (pc = "done" /\ err = NoErr =>
              /\ resps # <<>>
              /\ ~NotDone(resps[Len(resps)])
              /\ DownloadedNames = SelectSeq(listed, NotMarkerName))

C10_Witness ==
    /\ Returned("Get")
    /\ err = NoErr
    /\ Len(reqs) = 2
    /\ Len(listed) = 2
    /\ \E i \in DOMAIN listed : ~NotMarkerName(listed[i])
    /\ Len(downloaded) = 1

====
